---- MODULE Spec2Model ----
(***************************************************************************)
(* terminalcp: the command-line front end.                                 *)
(*                                                                         *)
(* Two entry points work on an argument vector:                            *)
(*   - the CLI parser (parseArgs and its per-command helpers), a pure      *)
(*     function from argv to {command, args, flags} or {error, usage?};    *)
(*   - the executable's main script (index.ts), which dispatches on        *)
(*     argv[0] with its own inline argument handling, creates a client,    *)
(*     sends one request to the daemon and exits from the promise's        *)
(*     then/catch handler.                                                 *)
(*                                                                         *)
(* JavaScript values are modelled as follows.  A string is a TLA+ string.  *)
(* An object is a function from its keys; a property whose value is        *)
(* undefined is an absent key.  A number is [nan, val] so that NaN can be  *)
(* told from every integer.  A variable that may be undefined is a         *)
(* sequence of length at most one.                                         *)
(***************************************************************************)
EXTENDS Integers, Sequences, FiniteSets, TLC

\* Longest tail of argv (the tokens after the command name) that is explored.
MaxRest == 4

----------------------------------------------------------------------------
(* Argument vectors *)

\* First tokens: every command name the sources know, and two they do not.
FirstTokens ==
    {"list", "ls", "start", "stop", "attach", "stdout", "stream", "stdin",
     "resize", "term-size", "version", "kill-server", "--mcp", "--server",
     "bogus", "Start"}

\* The tokens explored after each command name: the ones its handling can
\* tell apart (flags, empty strings, numerals of every kind, key tokens).
RestTokens(c) ==
    CASE c = "start"  -> {"s1", "", "--cwd", "abc", "/tmp"}
      [] c = "resize" -> {"s1", "40", "0", "-5", "12abc", "abc"}
      [] c = "stdout" -> {"s1", "", "40", "abc"}
      [] c = "stream" -> {"s1", "", "--since-last", "--with-ansi"}
      [] c = "stdin"  -> {"s1", "--cwd", "abc", "::Enter"}
      [] c \in {"stop", "attach", "term-size"} -> {"s1", ""}
      [] OTHER -> {"s1"}

SeqsUpTo(S, n) == UNION {[1..k -> S] : k \in 0..n}

\* How many tokens are explored after each command name: resize, whose
\* three arguments are positional, gets one fewer than the variadic commands.
RestLen(c) == IF c = "resize" THEN MaxRest - 1 ELSE MaxRest

ArgVectors ==
    {<<>>} \cup UNION {{<<c>> \o r : r \in SeqsUpTo(RestTokens(c), RestLen(c))} : c \in FirstTokens}

\* The characters of each explored token (TLA+ strings are atomic).
Chars(s) ==
    CASE s = ""      -> <<>>
      [] s = "40"    -> <<"4", "0">>
      [] s = "0"     -> <<"0">>
      [] s = "-5"    -> <<"-", "5">>
      [] s = "12abc" -> <<"1", "2", "a", "b", "c">>
      [] s = "abc"   -> <<"a", "b", "c">>
      [] s = "s1"    -> <<"s", "1">>
      [] s = "/tmp"  -> <<"/", "t", "m", "p">>
      [] s = "--cwd" -> <<"-", "-", "c", "w", "d">>
      [] OTHER       -> <<"?">>   \* the other tokens are never read as numbers

----------------------------------------------------------------------------
(* JavaScript primitives used by both sources *)

EmptyObject == [k \in {} |-> ""]

NaN == [nan |-> TRUE, val |-> 0]
Num(n) == [nan |-> FALSE, val |-> n]

IsDigit(ch) == ch \in {"0", "1", "2", "3", "4", "5", "6", "7", "8", "9"}

DigitVal(ch) ==
    CASE ch = "0" -> 0 [] ch = "1" -> 1 [] ch = "2" -> 2 [] ch = "3" -> 3
      [] ch = "4" -> 4 [] ch = "5" -> 5 [] ch = "6" -> 6 [] ch = "7" -> 7
      [] ch = "8" -> 8 [] ch = "9" -> 9

\* The longest prefix of cs made of decimal digits.
RECURSIVE DigitPrefix(_)
DigitPrefix(cs) ==
    IF cs = <<>> \/ ~IsDigit(Head(cs)) THEN <<>>
    ELSE <<Head(cs)>> \o DigitPrefix(Tail(cs))

RECURSIVE DigitsValue(_, _)
DigitsValue(ds, acc) ==
    IF ds = <<>> THEN acc ELSE DigitsValue(Tail(ds), 10 * acc + DigitVal(Head(ds)))

\* parseInt(string): an optional sign, then the longest run of decimal
\* digits; what follows the digits is ignored; NaN when there is no digit.
\* (No explored token starts with white space or with 0x.)
parseInt(s) ==
    LET cs     == Chars(s)
        signed == cs # <<>> /\ Head(cs) \in {"-", "+"}
        body   == IF signed THEN Tail(cs) ELSE cs
        ds     == DigitPrefix(body)
        n      == DigitsValue(ds, 0)
    IN  IF ds = <<>> THEN NaN
        ELSE IF signed /\ Head(cs) = "-" THEN Num(0 - n) ELSE Num(n)

isNaN(x) == x.nan

\* Array.prototype.join(" ")
RECURSIVE Join(_)
Join(ws) ==
    IF ws = <<>> THEN ""
    ELSE IF Len(ws) = 1 THEN ws[1]
    ELSE ws[1] \o " " \o Join(Tail(ws))

\* Array.prototype.includes
Includes(a, x) == \E i \in 1..Len(a) : a[i] = x

\* Array.prototype.slice(n): the elements from 0-based index n on.
Slice(a, n) == SubSeq(a, n + 1, Len(a))

\* !v for a variable holding a string or undefined (<<>>).
Falsy(v) == v = <<>> \/ v[1] = ""

\* !a[i] for the element at 0-based index i of an array of strings.
FalsyAt(a, i) == i + 1 > Len(a) \/ a[i + 1] = ""

----------------------------------------------------------------------------
(* The CLI parser *)

ParsedCommand(command, args, flags) ==
    [command |-> command, args |-> args, flags |-> flags]

ParseError(error) == [error |-> error]

ParseErrorUsage(error, usage) == [error |-> error, usage |-> usage]

isError(result) == "error" \in DOMAIN result

StartUsage == "terminalcp start <session-id> <command> [args...] [--cwd <directory>]"

\* Variant: the loop without the i++ that skips the value of --cwd.
RECURSIVE parseStartLoopKeepsCwdValue(_, _, _, _, _)
parseStartLoopKeepsCwdValue(a, i, sessionId, cwd, commandArgs) ==
    IF i >= Len(a)
    THEN [failed |-> FALSE, sessionId |-> sessionId, cwd |-> cwd, commandArgs |-> commandArgs]
    ELSE IF a[i + 1] = "--cwd"
         THEN IF i + 1 >= Len(a)
              THEN [failed |-> TRUE, sessionId |-> sessionId, cwd |-> cwd, commandArgs |-> commandArgs]
              ELSE parseStartLoopKeepsCwdValue(a, i + 1, sessionId, <<a[i + 2]>>, commandArgs)
         ELSE IF Falsy(sessionId)
              THEN parseStartLoopKeepsCwdValue(a, i + 1, <<a[i + 1]>>, cwd, commandArgs)
              ELSE parseStartLoopKeepsCwdValue(a, i + 1, sessionId, cwd, Append(commandArgs, a[i + 1]))

\* The for loop of parseStartCommand, from 0-based index i on.
RECURSIVE parseStartLoop(_, _, _, _, _)
parseStartLoop(a, i, sessionId, cwd, commandArgs) ==
    IF i >= Len(a)
    THEN [failed |-> FALSE, sessionId |-> sessionId, cwd |-> cwd, commandArgs |-> commandArgs]
    ELSE IF a[i + 1] = "--cwd"
         THEN IF i + 1 >= Len(a)
              THEN [failed |-> TRUE, sessionId |-> sessionId, cwd |-> cwd, commandArgs |-> commandArgs]
              ELSE parseStartLoop(a, i + 2, sessionId, <<a[i + 2]>>, commandArgs)
         ELSE IF Falsy(sessionId)
              THEN parseStartLoop(a, i + 1, <<a[i + 1]>>, cwd, commandArgs)
              ELSE parseStartLoop(a, i + 1, sessionId, cwd, Append(commandArgs, a[i + 1]))

\* Variant: parseStartCommand without its first length check.
parseStartCommandNoLengthCheck(a) ==
    LET l == parseStartLoop(a, 0, <<>>, <<>>, <<>>)
    IN  IF l.failed
        THEN ParseErrorUsage("--cwd requires a directory path", StartUsage)
        ELSE IF Falsy(l.sessionId) \/ Len(l.commandArgs) = 0
        THEN ParseErrorUsage("Missing required arguments", StartUsage)
        ELSE ParsedCommand("start",
                 [sessionId |-> l.sessionId[1], command |-> Join(l.commandArgs)],
                 IF ~Falsy(l.cwd) THEN [cwd |-> l.cwd[1]] ELSE EmptyObject)

parseStartCommand(a) ==
    IF Len(a) < 2
    THEN ParseErrorUsage("start command requires session-id and command", StartUsage)
    ELSE LET l == parseStartLoop(a, 0, <<>>, <<>>, <<>>)
         IN  IF l.failed
             THEN ParseErrorUsage("--cwd requires a directory path", StartUsage)
             ELSE IF Falsy(l.sessionId) \/ Len(l.commandArgs) = 0
             THEN ParseErrorUsage("Missing required arguments", StartUsage)
             ELSE ParsedCommand("start",
                      [sessionId |-> l.sessionId[1], command |-> Join(l.commandArgs)],
                      IF ~Falsy(l.cwd) THEN [cwd |-> l.cwd[1]] ELSE EmptyObject)

\* Variant: stop made to require its session id, like attach.
parseStopCommandRequiresId(a) ==
    IF Len(a) < 1
    THEN ParseErrorUsage("stop command requires session-id", "terminalcp stop [id]")
    ELSE ParsedCommand("stop", [sessionId |-> a[1]], EmptyObject)

parseStopCommand(a) ==
    ParsedCommand("stop",
        IF Len(a) >= 1 THEN [sessionId |-> a[1]] ELSE EmptyObject,
        EmptyObject)

parseAttachCommand(a) ==
    IF Len(a) < 1
    THEN ParseErrorUsage("attach command requires session-id", "terminalcp attach <id>")
    ELSE ParsedCommand("attach", [sessionId |-> a[1]], EmptyObject)

parseStdoutCommand(a) ==
    IF Len(a) < 1
    THEN ParseErrorUsage("stdout command requires session-id", "terminalcp stdout <id> [lines]")
    ELSE ParsedCommand("stdout",
             IF ~FalsyAt(a, 1)
             THEN [sessionId |-> a[1], lines |-> parseInt(a[2])]
             ELSE [sessionId |-> a[1]],
             EmptyObject)

\* The for loop of parseStreamCommand: the flags set by a[i..] (0-based i).
RECURSIVE parseStreamLoop(_, _, _)
parseStreamLoop(a, i, flags) ==
    IF i >= Len(a) THEN flags
    ELSE IF a[i + 1] = "--since-last"
         THEN parseStreamLoop(a, i + 1, [k \in DOMAIN flags \cup {"sinceLast"} |-> TRUE])
         ELSE IF a[i + 1] = "--with-ansi"
              THEN parseStreamLoop(a, i + 1, [k \in DOMAIN flags \cup {"withAnsi"} |-> TRUE])
              ELSE parseStreamLoop(a, i + 1, flags)

parseStreamCommand(a) ==
    IF Len(a) < 1
    THEN ParseErrorUsage("stream command requires session-id",
                         "terminalcp stream <id> [--since-last] [--with-ansi]")
    ELSE ParsedCommand("stream", [sessionId |-> a[1]],
                       parseStreamLoop(a, 1, [k \in {} |-> TRUE]))

\* Variant: the data sliced from index 2, as if a still held the command name.
parseStdinCommandSliceTwo(a) ==
    IF Len(a) < 2
    THEN ParseErrorUsage("stdin command requires session-id and data",
                         "terminalcp stdin <id> <text> [text] ...")
    ELSE ParsedCommand("stdin", [sessionId |-> a[1], data |-> Slice(a, 2)], EmptyObject)

parseStdinCommand(a) ==
    IF Len(a) < 2
    THEN ParseErrorUsage("stdin command requires session-id and data",
                         "terminalcp stdin <id> <text> [text] ...")
    ELSE ParsedCommand("stdin", [sessionId |-> a[1], data |-> Slice(a, 1)], EmptyObject)

parseResizeCommand(a) ==
    IF Len(a) < 3
    THEN ParseErrorUsage("resize command requires session-id, cols, and rows",
                         "terminalcp resize <id> <cols> <rows>")
    ELSE LET cols == parseInt(a[2])
             rows == parseInt(a[3])
         IN  IF isNaN(cols) \/ isNaN(rows)
             THEN ParseErrorUsage("cols and rows must be numbers",
                                  "terminalcp resize <id> <cols> <rows>")
             ELSE ParsedCommand("resize",
                      [sessionId |-> a[1], cols |-> cols, rows |-> rows], EmptyObject)

parseTermSizeCommand(a) ==
    IF Len(a) < 1
    THEN ParseErrorUsage("term-size command requires session-id", "terminalcp term-size <id>")
    ELSE ParsedCommand("term-size", [sessionId |-> a[1]], EmptyObject)

\* Variant: the list case reports the name it was called by, "ls" included.
parseArgsAliasLeaks(a) ==
    IF Len(a) = 0 THEN ParseError("No command provided")
    ELSE LET commandName == Head(a)
             rest        == Tail(a)
         IN  CASE commandName = "start"       -> parseStartCommand(rest)
               [] commandName = "stop"        -> parseStopCommand(rest)
               [] commandName \in {"list", "ls"} -> ParsedCommand(commandName, EmptyObject, EmptyObject)
               [] commandName = "attach"      -> parseAttachCommand(rest)
               [] commandName = "stdout"      -> parseStdoutCommand(rest)
               [] commandName = "stream"      -> parseStreamCommand(rest)
               [] commandName = "stdin"       -> parseStdinCommand(rest)
               [] commandName = "resize"      -> parseResizeCommand(rest)
               [] commandName = "term-size"   -> parseTermSizeCommand(rest)
               [] commandName = "version"     -> ParsedCommand("version", EmptyObject, EmptyObject)
               [] commandName = "kill-server" -> ParsedCommand("kill-server", EmptyObject, EmptyObject)
               [] commandName = "--mcp"       -> ParsedCommand("mcp", EmptyObject, EmptyObject)
               [] commandName = "--server"    -> ParsedCommand("server", EmptyObject, EmptyObject)
               [] OTHER -> ParseErrorUsage("Unknown command: " \o commandName,
                                           "Run 'terminalcp' without arguments to see help")

parseArgs(a) ==
    IF Len(a) = 0 THEN ParseError("No command provided")
    ELSE LET commandName == Head(a)
             rest        == Tail(a)
         IN  CASE commandName = "start"       -> parseStartCommand(rest)
               [] commandName = "stop"        -> parseStopCommand(rest)
               [] commandName \in {"list", "ls"} -> ParsedCommand("list", EmptyObject, EmptyObject)
               [] commandName = "attach"      -> parseAttachCommand(rest)
               [] commandName = "stdout"      -> parseStdoutCommand(rest)
               [] commandName = "stream"      -> parseStreamCommand(rest)
               [] commandName = "stdin"       -> parseStdinCommand(rest)
               [] commandName = "resize"      -> parseResizeCommand(rest)
               [] commandName = "term-size"   -> parseTermSizeCommand(rest)
               [] commandName = "version"     -> ParsedCommand("version", EmptyObject, EmptyObject)
               [] commandName = "kill-server" -> ParsedCommand("kill-server", EmptyObject, EmptyObject)
               [] commandName = "--mcp"       -> ParsedCommand("mcp", EmptyObject, EmptyObject)
               [] commandName = "--server"    -> ParsedCommand("server", EmptyObject, EmptyObject)
               [] OTHER -> ParseErrorUsage("Unknown command: " \o commandName,
                                           "Run 'terminalcp' without arguments to see help")

----------------------------------------------------------------------------
(* The executable: state of one run of index.ts, and of one call of the parser *)

VARIABLES
    args,      \* process.argv.slice(2)
    daemon,    \* the daemon's socket as the run finds it: "absent", "stale" (file without listener), "up"
    result,    \* what parseArgs(args) returned, NoResult before the call
    pc,        \* where the run is: "main", "awaiting", "settled", "attaching", "attached", "serving", "exited"
    client,    \* the client object the run created: "none", "TerminalClient", "AttachClient"
    sent,      \* the requests handed to client.request, in order
    keyCalls,  \* the arguments of the calls of parseKeyInput, in order
    settled,   \* how the pending promise settled, Pending before
    exit,      \* <<code>> once process.exit(code) was called
    out,       \* lines written to stdout
    err        \* lines written to stderr

vars == <<args, daemon, result, pc, client, sent, keyCalls, settled, exit, out, err>>

NoResult == [pending |-> TRUE]
Pending == [pending |-> TRUE]

Fulfilled(payload) == [ok |-> TRUE, payload |-> payload]
Rejected(message) == [ok |-> FALSE, message |-> message]

Init ==
    /\ args \in ArgVectors
    /\ daemon \in {"absent", "stale", "up"}
    /\ result = NoResult
    /\ pc = "main"
    /\ client = "none"
    /\ sent = <<>>
    /\ keyCalls = <<>>
    /\ settled = Pending
    /\ exit = <<>>
    /\ out = <<>>
    /\ err = <<>>

\* A call of the parser on the argument vector (as the parser's tests make it).
ParseArgs ==
    /\ result = NoResult
    /\ result' = parseArgs(args)
    /\ UNCHANGED <<args, daemon, pc, client, sent, keyCalls, settled, exit, out, err>>

----------------------------------------------------------------------------
(* index.ts: the synchronous part of each branch *)

\* console.error(lines...) ; process.exit(code)
Fail(lines, code) ==
    /\ err' = err \o lines
    /\ exit' = <<code>>
    /\ pc' = "exited"
    /\ UNCHANGED <<args, daemon, result, client, sent, keyCalls, settled, out>>

\* Variant: the request is handed to the client a second time (a retry).
RequestResent(request) ==
    /\ client' = "TerminalClient"
    /\ sent' = sent \o <<request, request>>
    /\ pc' = "awaiting"
    /\ UNCHANGED <<args, daemon, result, keyCalls, settled, exit, out, err>>

\* new TerminalClient() ; client.request(request)
Request(request) ==
    /\ client' = "TerminalClient"
    /\ sent' = Append(sent, request)
    /\ pc' = "awaiting"
    /\ UNCHANGED <<args, daemon, result, keyCalls, settled, exit, out, err>>

\* String.prototype.toLowerCase on the explored first tokens.
LowerCase(s) == IF s = "Start" THEN "start" ELSE s

\* Variant: the command name compared without regard to case.
BranchIgnoringCase(name) == pc = "main" /\ Len(args) > 0 /\ LowerCase(args[1]) = name

\* The branch of the dispatch chain that argv selects.
Branch(name) == pc = "main" /\ Len(args) > 0 /\ args[1] = name

Help ==
    /\ pc = "main"
    /\ Len(args) = 0
    /\ out' = Append(out, "terminalcp - Terminal Control Protocol")
    /\ exit' = <<0>>
    /\ pc' = "exited"
    /\ UNCHANGED <<args, daemon, result, client, sent, keyCalls, settled, err>>

RunMCP ==
    /\ Branch("--mcp")
    /\ pc' = "serving"
    /\ UNCHANGED <<args, daemon, result, client, sent, keyCalls, settled, exit, out, err>>

Server ==
    /\ Branch("--server")
    /\ pc' = "serving"
    /\ UNCHANGED <<args, daemon, result, client, sent, keyCalls, settled, exit, out, err>>

List ==
    /\ pc = "main" /\ Len(args) > 0 /\ args[1] \in {"ls", "list"}
    /\ Request([action |-> "list"])

\* The for loop of the start branch, from 0-based index i on.
RECURSIVE startLoop(_, _, _, _, _)
startLoop(a, i, sessionId, cwd, commandArgs) ==
    IF i >= Len(a)
    THEN [failed |-> FALSE, sessionId |-> sessionId, cwd |-> cwd, commandArgs |-> commandArgs]
    ELSE IF a[i + 1] = "--cwd"
         THEN IF i + 1 >= Len(a)
              THEN [failed |-> TRUE, sessionId |-> sessionId, cwd |-> cwd, commandArgs |-> commandArgs]
              ELSE startLoop(a, i + 2, sessionId, <<a[i + 2]>>, commandArgs)
         ELSE IF Falsy(sessionId)
              THEN startLoop(a, i + 1, <<a[i + 1]>>, cwd, commandArgs)
              ELSE startLoop(a, i + 1, sessionId, cwd, Append(commandArgs, a[i + 1]))

\* The StartArgs request built from the loop's variables.
startRequest(l) ==
    IF ~Falsy(l.cwd)
    THEN [action |-> "start", command |-> Join(l.commandArgs), name |-> l.sessionId[1],
          cwd |-> l.cwd[1]]
    ELSE [action |-> "start", command |-> Join(l.commandArgs), name |-> l.sessionId[1]]

Start ==
    /\ Branch("start")
    /\ LET l == startLoop(Slice(args, 1), 0, <<>>, <<>>, <<>>)
       IN  IF l.failed
           THEN Fail(<<"Error: --cwd requires a directory path">>, 1)
           ELSE IF Falsy(l.sessionId) \/ Len(l.commandArgs) = 0
           THEN Fail(<<"Usage: terminalcp start <session-id> <command> [args...] [--cwd <directory>]">>, 1)
           ELSE Request(startRequest(l))

Stop ==
    /\ Branch("stop")
    /\ Request(IF Len(args) >= 2 THEN [action |-> "stop", id |-> args[2]]
               ELSE [action |-> "stop"])

stdoutRequest(a) ==
    IF ~FalsyAt(a, 2)
    THEN [action |-> "stdout", id |-> a[2], lines |-> parseInt(a[3])]
    ELSE [action |-> "stdout", id |-> a[2]]

Stdout ==
    /\ Branch("stdout")
    /\ IF FalsyAt(args, 1)
       THEN Fail(<<"Usage: terminalcp stdout <id> [lines]">>, 1)
       ELSE Request(stdoutRequest(args))

streamRequest(a) ==
    [action |-> "stream", id |-> a[2],
     since_last |-> Includes(a, "--since-last"),
     strip_ansi |-> ~Includes(a, "--with-ansi")]

Stream ==
    /\ Branch("stream")
    /\ IF FalsyAt(args, 1)
       THEN Fail(<<"Usage: terminalcp stream <id> [--since-last] [--with-ansi]">>, 1)
       ELSE Request(streamRequest(args))

\* The key translator (key-parser): each token becomes its bytes, a token
\* with the :: prefix the bytes of the key it names; order is kept.
KeyBytes(token) == IF token = "::Enter" THEN "\r" ELSE token

parseKeyInput(tokens) == [i \in 1..Len(tokens) |-> KeyBytes(tokens[i])]

Stdin ==
    /\ Branch("stdin")
    /\ IF Len(args) < 3
       THEN Fail(<<"Usage: terminalcp stdin <id> <text> [text] ...">>, 1)
       ELSE LET dataArgs == Slice(args, 2)
                data     == parseKeyInput(dataArgs)
            IN  /\ client' = "TerminalClient"
                /\ keyCalls' = Append(keyCalls, dataArgs)
                /\ sent' = Append(sent, [action |-> "stdin", id |-> args[2], data |-> data])
                /\ pc' = "awaiting"
                /\ UNCHANGED <<args, daemon, result, settled, exit, out, err>>

TermSize ==
    /\ Branch("term-size")
    /\ IF FalsyAt(args, 1)
       THEN Fail(<<"Usage: terminalcp term-size <id>">>, 1)
       ELSE Request([action |-> "term-size", id |-> args[2]])

resizeRequest(a) ==
    [action |-> "resize", id |-> a[2], cols |-> parseInt(a[3]), rows |-> parseInt(a[4])]

Resize ==
    /\ Branch("resize")
    /\ IF Len(args) < 4
       THEN Fail(<<"Usage: terminalcp resize <id> <cols> <rows>">>, 1)
       ELSE Request(resizeRequest(args))

Attach ==
    /\ Branch("attach")
    /\ IF FalsyAt(args, 1)
       THEN Fail(<<"Usage: terminalcp attach <id>">>, 1)
       ELSE /\ client' = "AttachClient"
            /\ pc' = "attaching"
            /\ UNCHANGED <<args, daemon, result, sent, keyCalls, settled, exit, out, err>>

Version ==
    /\ Branch("version")
    /\ Request([action |-> "version"])

KillServer ==
    /\ Branch("kill-server")
    /\ IF daemon = "absent"
       THEN Fail(<<"No server running">>, 1)
       ELSE Request([action |-> "kill-server"])

KnownBranches ==
    {"--mcp", "ls", "list", "start", "stop", "stdout", "stream", "stdin", "term-size",
     "resize", "attach", "version", "kill-server", "--server"}

Unknown ==
    /\ pc = "main" /\ Len(args) > 0 /\ args[1] \notin KnownBranches
    /\ Fail(<<"Unknown command: " \o args[1],
              "Run 'terminalcp' without arguments to see help">>, 1)

----------------------------------------------------------------------------
(* The clients and the daemon behind them (terminal-client, attach-client, *)
(* terminal-server): what a request or an attach can come back with.       *)

\* The list response's text for no session and for one session.
ListPayloads == {"", "s1 running /tmp abc"}

\* response.split("\n").filter((line) => line.trim())
NonBlankLines(response) == IF response = "" THEN <<>> ELSE <<response>>

\* line.split(" ")
Fields(line) ==
    IF line = "s1 running /tmp abc" THEN <<"s1", "running", "/tmp", "abc">> ELSE <<line>>

\* Whether the daemon accepts the request's fields (resize needs positive
\* integer cols and rows).
ValidRequest(request) ==
    request.action = "resize" =>
        /\ ~isNaN(request.cols) /\ request.cols.val > 0
        /\ ~isNaN(request.rows) /\ request.rows.val > 0

\* The success payloads of a request.
SuccessPayloads(request) ==
    CASE request.action = "list"  -> ListPayloads
      [] request.action = "start" -> {request.name}
      [] OTHER -> {"ok"}

\* The ways client.request(request) settles: rejected with "No server
\* running" when nothing listens on the socket, else fulfilled with the
\* daemon's success payload or rejected with the daemon's error message.
Settlements(request) ==
    IF daemon # "up" THEN {Rejected("No server running")}
    ELSE {Rejected("daemon error")} \cup
         (IF ValidRequest(request)
          THEN {Fulfilled(p) : p \in SuccessPayloads(request)} ELSE {})

ClientSettle ==
    /\ pc = "awaiting"
    /\ \E s \in Settlements(sent[Len(sent)]) : settled' = s
    /\ pc' = "settled"
    /\ UNCHANGED <<args, daemon, result, client, sent, keyCalls, exit, out, err>>

\* AttachClient.attach: rejected when nothing listens or the daemon refuses
\* the session, else the interactive session begins.
AttachSettle ==
    /\ pc = "attaching"
    /\ \/ /\ settled' = Rejected(IF daemon # "up" THEN "No server running" ELSE "daemon error")
          /\ pc' = "settled"
       \/ /\ daemon = "up"
          /\ settled' = Fulfilled("attached")
          /\ pc' = "attached"
    /\ UNCHANGED <<args, daemon, result, client, sent, keyCalls, exit, out, err>>

\* The detach chord ends the attach connection; the process ends normally.
Detach ==
    /\ pc = "attached"
    /\ exit' = <<0>>
    /\ pc' = "exited"
    /\ UNCHANGED <<args, daemon, result, client, sent, keyCalls, settled, out, err>>

----------------------------------------------------------------------------
(* index.ts: the then and catch handlers *)

\* What the list branch's then handler prints.
listOutput(response) ==
    LET lines == NonBlankLines(response)
    IN  IF Len(lines) = 0 THEN <<"No active sessions">>
        ELSE LET f == Fields(lines[1])
             IN  <<"  " \o f[1], "    Status: " \o f[2], "    CWD: " \o f[3],
                   "    Command: " \o Join(SubSeq(f, 4, Len(f))), "">>

ListThen ==
    /\ pc = "settled" /\ client = "TerminalClient" /\ sent[1].action = "list"
    /\ settled.ok
    /\ out' = out \o listOutput(settled.payload)
    /\ exit' = <<0>>
    /\ pc' = "exited"
    /\ UNCHANGED <<args, daemon, result, client, sent, keyCalls, settled, err>>

\* Variant: the catch handler does not single out the missing daemon.
listCatchExitAlwaysFails(message) == 1

\* The list branch's catch handler: the code it exits with.
listCatchExit(message) == IF message = "No server running" THEN 0 ELSE 1

ListCatch ==
    /\ pc = "settled" /\ client = "TerminalClient" /\ sent[1].action = "list"
    /\ ~settled.ok
    /\ IF listCatchExit(settled.message) = 0
       THEN /\ out' = Append(out, "No active sessions")
            /\ err' = err
       ELSE /\ err' = Append(err, settled.message)
            /\ out' = out
    /\ exit' = <<listCatchExit(settled.message)>>
    /\ pc' = "exited"
    /\ UNCHANGED <<args, daemon, result, client, sent, keyCalls, settled>>

\* What the then handler of each other one-shot branch prints.
thenOutput(action, payload) ==
    CASE action = "start"       -> <<"Started session: " \o payload>>
      [] action = "stop"        -> <<payload>>
      [] action = "stdout"      -> <<payload>>
      [] action = "stream"      -> <<payload>>
      [] action = "stdin"       -> <<>>
      [] action = "term-size"   -> <<payload>>
      [] action = "resize"      -> <<"Terminal resized">>
      [] action = "version"     -> <<"Server version: " \o payload, "Client version: CLIENT_VERSION">>
      [] action = "kill-server" -> <<"Server killed">>

\* The code the then handlers exit with.
thenExit(action) == 0

Then ==
    /\ pc = "settled" /\ client = "TerminalClient" /\ sent[1].action # "list"
    /\ settled.ok
    /\ out' = out \o thenOutput(sent[1].action, settled.payload)
    /\ exit' = <<thenExit(sent[1].action)>>
    /\ pc' = "exited"
    /\ UNCHANGED <<args, daemon, result, client, sent, keyCalls, settled, err>>

\* What the catch handler of each other one-shot branch writes to stderr.
catchPrefix(action) ==
    CASE action = "start"       -> "Failed to start session: "
      [] action = "stop"        -> "Failed to stop session: "
      [] action = "stdout"      -> "Failed to get stdout: "
      [] action = "stream"      -> "Failed to get stream: "
      [] action = "stdin"       -> "Failed to send stdin: "
      [] action = "term-size"   -> "Failed to get terminal size: "
      [] action = "resize"      -> "Failed to resize terminal: "
      [] action = "version"     -> "Failed to get server version: "
      [] action = "kill-server" -> "Failed to kill server: "

\* Variant: a catch handler that reports the error and exits with 0.
catchExitSwallows(action) == 0

\* The code the catch handlers exit with.
catchExit(action) == 1

Catch ==
    /\ pc = "settled" /\ client = "TerminalClient" /\ sent[1].action # "list"
    /\ ~settled.ok
    /\ err' = Append(err, catchPrefix(sent[1].action) \o settled.message)
    /\ out' = IF sent[1].action = "version"
              THEN Append(out, "Client version: CLIENT_VERSION") ELSE out
    /\ exit' = <<catchExit(sent[1].action)>>
    /\ pc' = "exited"
    /\ UNCHANGED <<args, daemon, result, client, sent, keyCalls, settled>>

AttachCatch ==
    /\ pc = "settled" /\ client = "AttachClient"
    /\ ~settled.ok
    /\ err' = Append(err, settled.message)
    /\ exit' = <<1>>
    /\ pc' = "exited"
    /\ UNCHANGED <<args, daemon, result, client, sent, keyCalls, settled, out>>

\* runMCPServer() or server.start() rejected: the catch handler of the
\* --mcp and --server branches.
ServeCatch ==
    /\ pc = "serving"
    /\ err' = Append(err, IF args[1] = "--mcp" THEN "Fatal error:" ELSE "Failed to start server:")
    /\ exit' = <<1>>
    /\ pc' = "exited"
    /\ UNCHANGED <<args, daemon, result, client, sent, keyCalls, settled, out>>

----------------------------------------------------------------------------

Next ==
    \/ ParseArgs
    \/ Help \/ RunMCP \/ Server \/ List \/ Start \/ Stop \/ Stdout \/ Stream \/ Stdin
    \/ TermSize \/ Resize \/ Attach \/ Version \/ KillServer \/ Unknown
    \/ ClientSettle \/ AttachSettle \/ Detach
    \/ ListThen \/ ListCatch \/ Then \/ Catch \/ AttachCatch \/ ServeCatch

Spec == Init /\ [][Next]_vars

\* The synchronous part of the script: Node runs it to completion.
ScriptStep ==
    \/ Help \/ RunMCP \/ Server \/ List \/ Start \/ Stop \/ Stdout \/ Stream \/ Stdin
    \/ TermSize \/ Resize \/ Attach \/ Version \/ KillServer \/ Unknown

\* The callbacks of a settled promise: Node runs them once it has settled.
HandlerStep == ListThen \/ ListCatch \/ Then \/ Catch \/ AttachCatch

\* A run under Node's scheduling.  Nothing is assumed of the parser's
\* caller, of the daemon or of the clients.
FairSpec == Spec /\ WF_vars(ScriptStep) /\ WF_vars(HandlerStep)

----------------------------------------------------------------------------
(* Vocabulary of the properties *)

\* The commands that contact the daemon, and the one-shot ones among them.
DaemonCommands ==
    {"list", "ls", "start", "stop", "stdout", "stream", "stdin", "resize", "term-size",
     "version", "kill-server", "attach"}

OneShotCommands == DaemonCommands \ {"attach"}

\* The run rejected argv: it exited with 1 from the synchronous part of its
\* branch, with no client created and nothing sent.
RejectedInput == pc = "exited" /\ exit = <<1>> /\ client = "none" /\ sent = <<>>

\* The tokens left once every "--cwd <dir>" pair, read left to right, is
\* removed (a "--cwd" with nothing after it is removed too).
RECURSIVE StripPairs(_)
StripPairs(ts) ==
    IF ts = <<>> THEN <<>>
    ELSE IF Head(ts) = "--cwd"
         THEN IF Len(ts) = 1 THEN <<>> ELSE StripPairs(Tail(Tail(ts)))
         ELSE <<Head(ts)>> \o StripPairs(Tail(ts))

\* Reading left to right, the last token is a "--cwd" flag with no value.
RECURSIVE DanglingCwd(_)
DanglingCwd(ts) ==
    IF ts = <<>> THEN FALSE
    ELSE IF Head(ts) = "--cwd"
         THEN IF Len(ts) = 1 THEN TRUE ELSE DanglingCwd(Tail(Tail(ts)))
         ELSE DanglingCwd(Tail(ts))

\* s is a decimal numeral of a strictly positive integer.
IsPositiveInteger(s) ==
    LET cs == Chars(s)
    IN  /\ cs # <<>>
        /\ \A i \in 1..Len(cs) : IsDigit(cs[i])
        /\ DigitsValue(cs, 0) > 0

\* String.prototype.includes on the messages of the parser.
StrIncludes(s, sub) ==
    CASE sub = "requires session-id and command" ->
             s = "start command requires session-id and command"
      [] sub = "--cwd requires a directory path" ->
             s = "--cwd requires a directory path"
      [] sub = "terminalcp start" -> s = StartUsage

----------------------------------------------------------------------------
(* C1 *)

\* argv is malformed: an unknown command, a missing required positional
\* argument, --cwd without a value, or a non-numeric cols, rows or lines.
Malformed(a) ==
    /\ Len(a) > 0
    /\ \/ a[1] \notin KnownBranches
       \/ a[1] = "start" /\ (DanglingCwd(Tail(a)) \/ Len(StripPairs(Tail(a))) < 2)
       \/ a[1] \in {"attach", "stdout", "stream", "term-size"} /\ Len(a) < 2
       \/ a[1] = "stdin" /\ Len(a) < 3
       \/ a[1] = "resize" /\ (Len(a) < 4 \/ isNaN(parseInt(a[3])) \/ isNaN(parseInt(a[4])))
       \/ a[1] = "stdout" /\ Len(a) >= 3 /\ a[3] # "" /\ isNaN(parseInt(a[3]))

\* C1: a run on a malformed argument vector ends in the failure exit (code 1)
\* without ever having created a client or sent a request to the daemon.
C1_MalformedRejectedBeforeConnect ==
    (Malformed(args) /\ pc # "main") => RejectedInput

----------------------------------------------------------------------------
(* C2 *)

\* C2: with no daemon running, a finished run of a daemon-contacting command
\* has exit code 0 exactly when the command is list/ls, and then it printed
\* "No active sessions"; every other such command printed an error and left
\* with a non-zero code; no run stays attached.
C2_NoServerExit ==
    (daemon # "up" /\ Len(args) > 0 /\ args[1] \in DaemonCommands) =>
        /\ pc # "attached"
        /\ pc = "exited" =>
              IF args[1] \in {"list", "ls"}
              THEN exit = <<0>> /\ out = <<"No active sessions">> /\ err = <<>>
              ELSE exit # <<>> /\ exit # <<0>> /\ err # <<>>

C2_Witness ==
    /\ daemon = "absent" /\ pc = "exited" /\ args = <<"ls">>
    /\ settled = Rejected("No server running") /\ exit = <<0>>

----------------------------------------------------------------------------
(* C3 *)

----------------------------------------------------------------------------
(* C4 *)

\* The parser's commands that the CLI serves with one request.
RequestCommands ==
    {"list", "start", "stop", "stdout", "stream", "stdin", "resize", "term-size",
     "version", "kill-server"}

\* The request that carries what the parser reported in r.
RequestOf(r) ==
    CASE r.command = "start" ->
             IF "cwd" \in DOMAIN r.flags
             THEN [action |-> "start", command |-> r.args.command, name |-> r.args.sessionId,
                   cwd |-> r.flags.cwd]
             ELSE [action |-> "start", command |-> r.args.command, name |-> r.args.sessionId]
      [] r.command = "stop" ->
             IF "sessionId" \in DOMAIN r.args
             THEN [action |-> "stop", id |-> r.args.sessionId]
             ELSE [action |-> "stop"]
      [] r.command = "stdout" ->
             IF "lines" \in DOMAIN r.args
             THEN [action |-> "stdout", id |-> r.args.sessionId, lines |-> r.args.lines]
             ELSE [action |-> "stdout", id |-> r.args.sessionId]
      [] r.command = "stream" ->
             [action |-> "stream", id |-> r.args.sessionId,
              since_last |-> "sinceLast" \in DOMAIN r.flags,
              strip_ansi |-> "withAnsi" \notin DOMAIN r.flags]
      [] r.command = "stdin" ->
             [action |-> "stdin", id |-> r.args.sessionId, data |-> parseKeyInput(r.args.data)]
      [] r.command = "resize" ->
             [action |-> "resize", id |-> r.args.sessionId, cols |-> r.args.cols,
              rows |-> r.args.rows]
      [] r.command = "term-size" -> [action |-> "term-size", id |-> r.args.sessionId]
      [] OTHER -> [action |-> r.command]

\* C4: once the run has left its synchronous part, it has rejected argv
\* without sending exactly when the parser returns an error for argv, and
\* otherwise the one request it sent is the one the parser's result names.
\* (kill-server with no socket file is refused for the daemon's absence, not
\* for its arguments, and is left out.)
C4_RequestMatchesParser ==
    (pc # "main" /\ Len(args) > 0 /\ args[1] \notin {"--mcp", "--server"}
       /\ ~(args[1] = "kill-server" /\ daemon = "absent")) =>
        LET r == parseArgs(args)
        IN  /\ isError(r) <=> (client = "none" /\ sent = <<>>)
            /\ (~isError(r) /\ r.command \in RequestCommands) => sent = <<RequestOf(r)>>

----------------------------------------------------------------------------
(* C5 *)

\* C5: a resize whose cols or rows is not the numeral of a strictly positive
\* integer is an error for the parser and never becomes a resize request;
\* positive integer cols and rows are passed through unchanged.
C5_ResizeNeedsPositiveIntegers ==
    (Len(args) >= 4 /\ args[1] = "resize") =>
        IF IsPositiveInteger(args[3]) /\ IsPositiveInteger(args[4])
        THEN LET cols == Num(DigitsValue(Chars(args[3]), 0))
                 rows == Num(DigitsValue(Chars(args[4]), 0))
             IN  /\ result # NoResult =>
                       result = ParsedCommand("resize",
                                    [sessionId |-> args[2], cols |-> cols, rows |-> rows],
                                    EmptyObject)
                 /\ pc # "main" =>
                       sent = <<[action |-> "resize", id |-> args[2], cols |-> cols, rows |-> rows]>>
        ELSE /\ result # NoResult => isError(result)
             /\ \A i \in 1..Len(sent) : sent[i].action # "resize"

----------------------------------------------------------------------------
(* C6 *)

ParserCommands ==
    {"list", "start", "stop", "attach", "stdout", "stream", "stdin", "resize", "term-size",
     "version", "kill-server", "mcp", "server"}

\* C6: parseArgs returns for every argument vector, and what it returns is
\* either {command, args, flags} with command one of the thirteen known
\* names, or {error, usage?}; never both; isError tells the two apart.
C6_ParseResultShape ==
    /\ result = NoResult => ENABLED ParseArgs
    /\ result # NoResult =>
          \/ /\ DOMAIN result = {"command", "args", "flags"}
             /\ result.command \in ParserCommands
             /\ ~isError(result)
          \/ /\ "error" \in DOMAIN result
             /\ DOMAIN result \subseteq {"error", "usage"}
             /\ isError(result)

C6_Witness ==
    /\ args = <<"ls">>
    /\ result = ParsedCommand("list", EmptyObject, EmptyObject)

----------------------------------------------------------------------------
(* C7 *)

\* What the claim expects of "start" followed by the tokens rest: for every
\* way of reading rest as id and command words with one "--cwd <dir>" pair
\* inserted, and for rest without the pair.  With nonEmpty, only non-empty
\* ids and directories are covered.
StartResultAsExpected(rest, nonEmpty) ==
    /\ \A p \in 0..(Len(rest) - 2) :
          LET base == SubSeq(rest, 1, p) \o SubSeq(rest, p + 3, Len(rest))
              dir  == rest[p + 2]
          IN  (/\ rest[p + 1] = "--cwd"
               /\ Len(base) >= 2
               /\ ~Includes(base, "--cwd")
               /\ (nonEmpty => (base[1] # "" /\ dir # ""))) =>
                  result = ParsedCommand("start",
                               [sessionId |-> base[1], command |-> Join(Tail(base))],
                               [cwd |-> dir])
    /\ (Len(rest) >= 2 /\ ~Includes(rest, "--cwd") /\ (nonEmpty => rest[1] # "")) =>
          result = ParsedCommand("start",
                       [sessionId |-> rest[1], command |-> Join(Tail(rest))],
                       EmptyObject)

----------------------------------------------------------------------------
(* C8 *)

\* C8 as stated: a start with no token left for the id or for the command
\* is an error whose message includes "requires session-id and command" and
\* whose usage includes "terminalcp start"; with "--cwd" as the last token
\* the message includes "--cwd requires a directory path".
C8_StartErrors_AsStated ==
    (result # NoResult /\ Len(args) > 0 /\ args[1] = "start") =>
        LET rest == Tail(args)
        IN  /\ Len(StripPairs(rest)) < 2 =>
                  /\ isError(result)
                  /\ StrIncludes(result.error, "requires session-id and command")
                  /\ StrIncludes(result.usage, "terminalcp start")
            /\ (Len(rest) > 0 /\ rest[Len(rest)] = "--cwd") =>
                  /\ isError(result)
                  /\ StrIncludes(result.error, "--cwd requires a directory path")

\* C8 amended: such a start is an error whose usage includes "terminalcp
\* start"; the message includes "requires session-id and command" when fewer
\* than two tokens follow "start"; when two or more follow, it includes
\* "--cwd requires a directory path" if a "--cwd" flag is the last token, and
\* is "Missing required arguments" if no token is left for the id or command.
C8_StartErrors ==
    (result # NoResult /\ Len(args) > 0 /\ args[1] = "start") =>
        LET rest == Tail(args)
        IN  /\ (Len(StripPairs(rest)) < 2 \/ DanglingCwd(rest)) =>
                  /\ isError(result)
                  /\ StrIncludes(result.usage, "terminalcp start")
            /\ Len(rest) < 2 =>
                  StrIncludes(result.error, "requires session-id and command")
            /\ (Len(rest) >= 2 /\ DanglingCwd(rest)) =>
                  StrIncludes(result.error, "--cwd requires a directory path")
            /\ (Len(rest) >= 2 /\ ~DanglingCwd(rest) /\ Len(StripPairs(rest)) < 2) =>
                  result.error = "Missing required arguments"

C8_Witness ==
    /\ args = <<"start", "--cwd", "/tmp", "s1">>
    /\ result = ParseErrorUsage("Missing required arguments", StartUsage)

----------------------------------------------------------------------------
(* C9 *)

\* C9: a stream request (and the parser's stream command) has the token in
\* the session-id position as its id, strip_ansi = false exactly when
\* "--with-ansi" is among the tokens after the id, and since_last = true
\* exactly when "--since-last" is among them.
C9_StreamFlags ==
    (Len(args) >= 2 /\ args[1] = "stream") =>
        LET after == Slice(args, 2)
        IN  /\ (result # NoResult /\ ~isError(result)) =>
                  /\ result.args.sessionId = args[2]
                  /\ "withAnsi" \in DOMAIN result.flags <=> Includes(after, "--with-ansi")
                  /\ "sinceLast" \in DOMAIN result.flags <=> Includes(after, "--since-last")
            /\ \A i \in 1..Len(sent) :
                  /\ sent[i].id = args[2]
                  /\ sent[i].strip_ansi = FALSE <=> Includes(after, "--with-ansi")
                  /\ sent[i].since_last = TRUE <=> Includes(after, "--since-last")

----------------------------------------------------------------------------
(* C10 *)

\* C10: for stdin with an id and at least one data token, the parser's data
\* is the sequence of all tokens after the id, in order; the run hands that
\* same sequence to the key translator in one call and sends what it
\* returned, token by token in order, in a single stdin request.
C10_StdinKeepsOrder ==
    (Len(args) >= 3 /\ args[1] = "stdin") =>
        LET tokens == SubSeq(args, 3, Len(args))
        IN  /\ result # NoResult =>
                  result = ParsedCommand("stdin", [sessionId |-> args[2], data |-> tokens],
                                         EmptyObject)
            /\ pc # "main" =>
                  /\ keyCalls = <<tokens>>
                  /\ Len(sent) = 1
                  /\ sent[1].action = "stdin"
                  /\ sent[1].id = args[2]
                  /\ Len(sent[1].data) = Len(tokens)
                  /\ \A i \in 1..Len(tokens) : sent[1].data[i] = KeyBytes(tokens[i])

C10_Witness ==
    /\ args = <<"stdin", "s1", "--cwd", "abc", "::Enter">>
    /\ result # NoResult
    /\ pc = "exited" /\ exit = <<0>>
    /\ sent[1].data = <<"--cwd", "abc", "\r">>

----------------------------------------------------------------------------
(* C11 *)

\* The command names of the claim.
KnownCommandSet ==
    {"list", "ls", "start", "stop", "attach", "stdout", "stream", "stdin", "resize",
     "term-size", "version", "kill-server", "--mcp", "--server"}

\* C11: a first argument outside the known command set is, for the parser,
\* the error "Unknown command: <name>" with the usage hint pointing to the
\* help, and for the run the same two lines on stderr and exit code 1, with
\* no client created and nothing sent: it is never dispatched as a known
\* action.
C11_UnknownCommand ==
    (Len(args) > 0 /\ args[1] \notin KnownCommandSet) =>
        /\ result # NoResult =>
              result = ParseErrorUsage("Unknown command: " \o args[1],
                                       "Run 'terminalcp' without arguments to see help")
        /\ pc # "main" =>
              /\ RejectedInput
              /\ settled = Pending
              /\ out = <<>>
              /\ err = <<"Unknown command: " \o args[1],
                         "Run 'terminalcp' without arguments to see help">>

C11_Witness ==
    /\ args = <<"Start", "s1", "s1">>
    /\ result = ParseErrorUsage("Unknown command: Start",
                                "Run 'terminalcp' without arguments to see help")
    /\ pc = "exited" /\ exit = <<1>> /\ sent = <<>>

----------------------------------------------------------------------------
(* C12 *)

\* The run is one of a one-shot command.
OneShotRun == Len(args) > 0 /\ args[1] \in OneShotCommands

\* C12: a run sends at most one request and never sends again once it has
\* sent (no retry); a run that has exited stays exited; and a run of a
\* one-shot command whose request has settled, with a response or with an
\* error, eventually exits.
C12_OneRequestThenExit ==
    /\ [](Len(sent) <= 1)
    /\ [][sent # <<>> => sent' = sent]_vars
    /\ [][pc = "exited" => (pc' = "exited" /\ exit' = exit)]_vars
    /\ (OneShotRun /\ pc = "settled") ~> (pc = "exited" /\ Len(sent) = 1)

C12_Witness ==
    /\ args = <<"version">> /\ daemon = "up"
    /\ pc = "exited" /\ exit = <<0>>
    /\ sent = <<[action |-> "version"]>> /\ settled = Fulfilled("ok")

----------------------------------------------------------------------------
(* C13 *)

\* C13: stop is never an error for the parser: with no further token its
\* session id is undefined (stop every session), with one or more tokens it
\* is the first of them and the others are ignored; the run sends one stop
\* request with exactly that id, or with none.
C13_StopTargets ==
    (Len(args) > 0 /\ args[1] = "stop") =>
        /\ result # NoResult =>
              /\ ~isError(result)
              /\ result = ParsedCommand("stop",
                              IF Len(args) >= 2 THEN [sessionId |-> args[2]] ELSE EmptyObject,
                              EmptyObject)
        /\ pc # "main" =>
              sent = <<IF Len(args) >= 2 THEN [action |-> "stop", id |-> args[2]]
                       ELSE [action |-> "stop"]>>

C13_Witness ==
    /\ args = <<"stop">>
    /\ result = ParsedCommand("stop", EmptyObject, EmptyObject)
    /\ sent = <<[action |-> "stop"]>>
    /\ pc = "exited"

----------------------------------------------------------------------------
(* C14 *)

\* Reading left to right, some "--cwd" flag is followed by a value.
RECURSIVE CwdSupplied(_)
CwdSupplied(ts) ==
    IF Len(ts) < 2 THEN FALSE
    ELSE IF Head(ts) = "--cwd" THEN TRUE
    ELSE CwdSupplied(Tail(ts))

\* C14: a successfully parsed start command, and a start request that was
\* sent, has a non-empty session id and a non-empty command string, and has
\* a cwd exactly when a "--cwd" value was supplied.
C14_StartCarriesIdAndCommand ==
    (Len(args) > 0 /\ args[1] = "start") =>
        /\ (result # NoResult /\ ~isError(result)) =>
              /\ result.args.sessionId # ""
              /\ result.args.command # ""
              /\ "cwd" \in DOMAIN result.flags <=> CwdSupplied(Tail(args))
        /\ \A i \in 1..Len(sent) :
              /\ sent[i].name # ""
              /\ sent[i].command # ""
              /\ "cwd" \in DOMAIN sent[i] <=> CwdSupplied(Tail(args))

====
